---- MODULE Spec2Model ----
(***************************************************************************)
(* TaskBoard backend (src/server.js): the task handlers of the Express     *)
(* application and the two DynamoDB tables they use.                       *)
(*                                                                         *)
(* A handler runs synchronously up to each `await docClient.send(...)`;    *)
(* the store call is applied at some later moment, and other requests may  *)
(* act on the store in between.  Nothing a handler does before its first   *)
(* store call is applied is visible to another request, so one action      *)
(* models a request from its arrival through its first store call to the   *)
(* point where its second store call is issued (or to its response), and   *)
(* one action models the second store call being applied together with     *)
(* the response that follows it.  Store calls are modelled as succeeding:  *)
(* the catch branches (500) run only when docClient.send rejects.          *)
(***************************************************************************)
EXTENDS Integers, Sequences, FiniteSets, TLC

\* ----------------------------------------------------------------- bounds
\* number of requests the clients send in one behaviour
MaxReqs == 3
\* number of items in the task tables GET /tasks is applied to
MaxItems == 2

\* ----------------------------------------------------------------- values
\* a field that is absent from a JSON body / an attribute an item lacks
Undefined == "undefined"
\* createdAt of an item that has no such attribute
NoTime == 0 - 1

\* server.js:160 and server.js:238
validStatuses == {"todo", "in-progress", "done"}

\* the board table is only ever read by this service: its content is fixed
Boards == {"b1", "b2"}

\* the ids generateId returns, in the order it returns them, in the
\* behaviours of the task handlers (Date.now() followed by a random suffix:
\* modelled as never returning an id twice); PUT and DELETE name these ids,
\* before and after the task exists
Ids == {1}

\* the clients: each sends its requests one after the other (the next one
\* after the previous one was answered); requests of different clients
\* overlap
Clients == {"c1", "c2"}
\* the client of the behaviours in which no two requests overlap
Solo == "c1"
NoClient == "none"

\* request bodies: every combination of the values a field is given
PostBodies ==
    [title : {Undefined, "", "T1"}, boardId : {Undefined, "b1", "b3"},
     description : {Undefined, "D1"},
     status : {Undefined, "in-progress", "archived"}]
PutBodies ==
    [title : {Undefined, "", "T2"}, description : {Undefined, "", "D2"},
     status : {Undefined, "", "done", "archived"}]

\* request bodies of the clients whose requests overlap
RacePostBodies ==
    [title : {"T1"}, boardId : {"b1", "b3"}, description : {Undefined},
     status : {Undefined}]
RacePutBodies ==
    [title : {Undefined, "T2"}, description : {Undefined, "D2"},
     status : {Undefined, "done", "in-progress"}]

\* boardId query parameters of GET /tasks
ListBoardIds == {Undefined, "", "b1", "b3"}

\* error strings of the envelopes
TitleRequired == "Title is required"
BoardRequired == "Board ID is required"
BoardNotFound == "Board not found"
InvalidStatus == "Invalid status. Must be: todo, in-progress, or done"
TaskNotFound == "Task not found"
NoError == "none"

VARIABLES
    tasks,      \* the task table: a function from the ids present to items
    reqs,       \* per client, its latest request: body, position, response
    started,    \* number of requests that have arrived
    nextId,     \* number of ids generateId has handed out
    now,        \* the clock, as last read by a handler (Date)
    listResp,   \* the body of the latest GET /tasks response
    delOk,      \* history: per id, how many DELETE requests were answered 200
    lastWrite   \* history: per id, the PUT request whose update was applied last

vars == <<tasks, reqs, started, nextId, now, listResp, delOk, lastWrite>>

\* JavaScript truthiness of a body field (a string or absent)
Truthy(v) == v # Undefined /\ v # ""

\* JavaScript `a || b` on such fields
OrElse(a, b) == IF Truthy(a) THEN a ELSE b

\* ------------------------------------------------------------------ items
\* An item is a function from the attribute names it has to their values.
Attr(item, a) == IF a \in DOMAIN item THEN item[a] ELSE Undefined

\* docClient.send(new GetCommand({TableName: TASKS_TABLE, Key: {id}})).Item
\* is defined
DdbHasItem(store, id) == id \in DOMAIN store

\* PutCommand: writes the whole item under its key, replacing any item there
DdbPut(store, item) ==
    [i \in DOMAIN store \cup {item.id} |-> IF i = item.id THEN item ELSE store[i]]

\* DdbUpdate as a bug would have it: the item is replaced by the key and
\* the named attributes (what a PutCommand does)
DdbUpdateAsPut(store, id, sets) ==
    LET new == [a \in {"id"} \cup DOMAIN sets |-> IF a = "id" THEN id ELSE sets[a]]
    IN  [i \in DOMAIN store \cup {id} |-> IF i = id THEN new ELSE store[i]]

\* DdbUpdate as a bug would have it: an attribute the item already has is
\* kept (SET a = if_not_exists(a, :v)), except updatedAt
DdbUpdateIfNotExists(store, id, sets) ==
    LET old == IF id \in DOMAIN store THEN store[id] ELSE [a \in {"id"} |-> id]
        new == [a \in DOMAIN old \cup DOMAIN sets |->
                    IF a \in DOMAIN sets /\ (a \notin DOMAIN old \/ a = "updatedAt")
                    THEN sets[a] ELSE old[a]]
    IN  [i \in DOMAIN store \cup {id} |-> IF i = id THEN new ELSE store[i]]

\* UpdateCommand with a SET expression and no ConditionExpression: sets the
\* named attributes of the item under the key, creating the item (with its
\* key and the named attributes alone) when the key has no item
DdbUpdate(store, id, sets) ==
    LET old == IF id \in DOMAIN store THEN store[id] ELSE [a \in {"id"} |-> id]
        new == [a \in DOMAIN old \cup DOMAIN sets |->
                    IF a \in DOMAIN sets THEN sets[a] ELSE old[a]]
    IN  [i \in DOMAIN store \cup {id} |-> IF i = id THEN new ELSE store[i]]

\* DeleteCommand: removes the item under the key, if any
DdbDelete(store, id) == [i \in DOMAIN store \ {id} |-> store[i]]

\* ScanCommand with FilterExpression 'boardId = :boardId'
ScanFilter(items, boardId) ==
    SelectSeq(items, LAMBDA t : Attr(t, "boardId") = boardId)

\* the orders in which a scan can return the items of the table
ScanOrders(store) ==
    {q \in [1..Cardinality(DOMAIN store) -> DOMAIN store] :
        \A i, j \in DOMAIN q : i # j => q[i] # q[j]}

\* --------------------------------------------------------------- requests
Idle ==
    [n |-> 0, op |-> "none", pc |-> "idle", id |-> 0, title |-> Undefined,
     description |-> Undefined, status |-> Undefined, boardId |-> Undefined,
     ts |-> NoTime, found |-> FALSE, seenAt |-> NoTime,
     calls |-> 0, code |-> 0, error |-> NoError,
     raced |-> FALSE, afterDel |-> FALSE]

\* res.status(code).json({success, error}) / res.json(...)
Respond(r, code, error) == [r EXCEPT !.pc = "done", !.code = code, !.error = error]

\* PostArrive as a bug would have it: boardId is not checked for presence
PostArriveNoBoardCheck(r) ==
    IF ~Truthy(r.title) THEN Respond(r, 400, TitleRequired)
    ELSE [r EXCEPT !.pc = "boardGet", !.calls = 1]

\* PostAfterBoard as a bug would have it: the status is not validated
PostAfterBoardNoStatusCheck(r, boardFound, id, ts) ==
    IF ~boardFound THEN Respond(r, 404, BoardNotFound)
    ELSE [r EXCEPT !.pc = "put", !.id = id, !.ts = ts, !.calls = 2]

\* --- POST /tasks
\* server.js:128-150, up to the board lookup being issued
PostArrive(r) ==
    IF ~Truthy(r.title) THEN Respond(r, 400, TitleRequired)
    ELSE IF ~Truthy(r.boardId) THEN Respond(r, 400, BoardRequired)
    ELSE [r EXCEPT !.pc = "boardGet", !.calls = 1]

\* server.js:152-185, from the board lookup's result to the PutCommand being
\* issued; id is generateId(), ts the clock reading of lines 176-177 (the
\* two readings of one synchronous block, taken as one)
PostAfterBoard(r, boardFound, id, ts) ==
    IF ~boardFound THEN Respond(r, 404, BoardNotFound)
    ELSE IF OrElse(r.status, "todo") \notin validStatuses
         THEN Respond(r, 400, InvalidStatus)
    ELSE [r EXCEPT !.pc = "put", !.id = id, !.ts = ts, !.calls = 2]

\* server.js:170-178, the item POST /tasks writes
Task(r) ==
    [a \in {"id", "boardId", "title", "description", "status", "createdAt", "updatedAt"} |->
        CASE a = "id" -> r.id
          [] a = "boardId" -> r.boardId
          [] a = "title" -> r.title
          [] a = "description" -> OrElse(r.description, "")
          [] a = "status" -> OrElse(r.status, "todo")
          [] a = "createdAt" -> r.ts
          [] a = "updatedAt" -> r.ts]

\* PutAfterGet as a bug would have it: the lookup's result is not checked
PutAfterGetNoExistenceCheck(r, found, ts) ==
    IF Truthy(r.status) /\ r.status \notin validStatuses
    THEN Respond([r EXCEPT !.found = found, !.ts = ts], 400, InvalidStatus)
    ELSE [r EXCEPT !.pc = "update", !.found = found, !.ts = ts, !.calls = 2]

\* UpdateValues as a bug would have it: `if (description)` in place of
\* `if (description !== undefined)`
UpdateValuesTruthyDescription(r) ==
    [a \in {"updatedAt"}
           \cup (IF Truthy(r.title) THEN {"title"} ELSE {})
           \cup (IF Truthy(r.description) THEN {"description"} ELSE {})
           \cup (IF Truthy(r.status) THEN {"status"} ELSE {}) |->
        CASE a = "updatedAt" -> r.ts
          [] a = "title" -> r.title
          [] a = "description" -> r.description
          [] a = "status" -> r.status]

\* --- PUT /tasks/:id
\* server.js:203-212
PutArrive(r) == [r EXCEPT !.pc = "get", !.calls = 1]

\* server.js:214-258, from the lookup's result to the UpdateCommand being
\* issued; ts is the clock reading of line 224
PutAfterGet(r, found, ts) ==
    IF ~found THEN Respond(r, 404, TaskNotFound)
    ELSE IF Truthy(r.status) /\ r.status \notin validStatuses
         THEN Respond([r EXCEPT !.found = TRUE, !.ts = ts], 400, InvalidStatus)
    ELSE [r EXCEPT !.pc = "update", !.found = TRUE, !.ts = ts, !.calls = 2]

\* server.js:222-247, the attributes the update expression sets
UpdateValues(r) ==
    [a \in {"updatedAt"}
           \cup (IF Truthy(r.title) THEN {"title"} ELSE {})
           \cup (IF r.description # Undefined THEN {"description"} ELSE {})
           \cup (IF Truthy(r.status) THEN {"status"} ELSE {}) |->
        CASE a = "updatedAt" -> r.ts
          [] a = "title" -> r.title
          [] a = "description" -> r.description
          [] a = "status" -> r.status]

\* --- DELETE /tasks/:id
\* server.js:276-284
DeleteArrive(r) == [r EXCEPT !.pc = "get", !.calls = 1]

\* server.js:286-298
DeleteAfterGet(r, found) ==
    IF ~found THEN Respond(r, 404, TaskNotFound)
    ELSE [r EXCEPT !.pc = "delete", !.found = TRUE, !.calls = 2]

\* organizedTasks as a bug would have it: done holds whatever is neither
\* todo nor in-progress
organizedTasksElseDone(list) ==
    [todo |-> SelectSeq(list, LAMBDA task : Attr(task, "status") = "todo"),
     inprogress |-> SelectSeq(list, LAMBDA task : Attr(task, "status") = "in-progress"),
     done |-> SelectSeq(list, LAMBDA task :
                Attr(task, "status") \notin {"todo", "in-progress"})]

\* --- GET /tasks
\* server.js:47-67
ListArrive(r) == [r EXCEPT !.pc = "scan", !.calls = 1]

\* server.js:71-75
organizedTasks(list) ==
    [todo |-> SelectSeq(list, LAMBDA task : Attr(task, "status") = "todo"),
     inprogress |-> SelectSeq(list, LAMBDA task : Attr(task, "status") = "in-progress"),
     done |-> SelectSeq(list, LAMBDA task : Attr(task, "status") = "done")]

\* server.js:77-83
ListResponse(list, boardId) ==
    [tasks |-> list, tasksByStatus |-> organizedTasks(list),
     total |-> Len(list), boardId |-> OrElse(boardId, "null")]

\* ------------------------------------------------------------------ state
Init ==
    /\ tasks = << >>
    /\ reqs = [c \in Clients |-> Idle]
    /\ started = 0
    /\ nextId = 0
    /\ now = 0
    /\ listResp = ListResponse(<< >>, Undefined)
    /\ delOk = [i \in Ids |-> 0]
    /\ lastWrite = [i \in Ids |-> NoClient]

\* client c, whose previous request was answered, sends a request, which
\* runs up to position r; it is request number started + 1
Arrive(c, r) ==
    /\ started < MaxReqs
    /\ reqs[c].pc \in {"idle", "done"}
    /\ started' = started + 1
    /\ reqs' = [reqs EXCEPT ![c] = [r EXCEPT !.n = started + 1]]
    /\ lastWrite' = [i \in Ids |-> IF lastWrite[i] = c THEN NoClient ELSE lastWrite[i]]

\* new Date(): the clock does not run backwards between two readings
ClockReadings == {now, now + 1}

\* ---------------------------------------------------------------- actions
\* POST /tasks up to the PutCommand being issued (server.js:126-185)
PostTasks(c, bodies) ==
    \E body \in bodies, ts \in ClockReadings :
        LET r0 == PostArrive([Idle EXCEPT !.op = "POST", !.title = body.title,
                                          !.boardId = body.boardId,
                                          !.description = body.description,
                                          !.status = body.status])
            r == IF r0.pc = "done" THEN r0
                 ELSE PostAfterBoard(r0, body.boardId \in Boards, nextId + 1, ts)
        IN  /\ r.pc = "put" => nextId + 1 \in Ids
            /\ Arrive(c, r)
            /\ nextId' = IF r.pc = "put" THEN nextId + 1 ELSE nextId
            /\ now' = IF r.pc = "put" THEN ts ELSE now
            /\ UNCHANGED <<tasks, listResp, delOk>>

\* the PutCommand is applied and the handler answers 201 (server.js:185-190)
PostPut(c) ==
    /\ reqs[c].op = "POST" /\ reqs[c].pc = "put"
    /\ tasks' = DdbPut(tasks, Task(reqs[c]))
    /\ reqs' = [reqs EXCEPT ![c] = Respond(reqs[c], 201, NoError)]
    /\ UNCHANGED <<started, nextId, now, listResp, delOk, lastWrite>>

\* PUT /tasks/:id up to the UpdateCommand being issued (server.js:201-258)
PutTask(c, bodies) ==
    \E id \in Ids, body \in bodies, ts \in ClockReadings :
        LET found == DdbHasItem(tasks, id)
            r0 == PutArrive([Idle EXCEPT !.op = "PUT", !.id = id,
                                         !.title = body.title,
                                         !.description = body.description,
                                         !.status = body.status])
            r == [PutAfterGet(r0, found, ts) EXCEPT
                    !.seenAt = IF found THEN tasks[id].updatedAt ELSE NoTime,
                    !.raced = \E d \in Clients \ {c} : /\ reqs[d].op = "PUT"
                                                       /\ reqs[d].pc = "update"
                                                       /\ reqs[d].id = id]
        IN  /\ Arrive(c, r)
            /\ now' = IF found THEN ts ELSE now
            /\ UNCHANGED <<tasks, nextId, listResp, delOk>>

\* the UpdateCommand is applied and the handler answers 200
\* (server.js:258-263)
PutUpdate(c) ==
    /\ reqs[c].op = "PUT" /\ reqs[c].pc = "update"
    /\ tasks' = DdbUpdate(tasks, reqs[c].id, UpdateValues(reqs[c]))
    /\ reqs' = [reqs EXCEPT ![c] = Respond(reqs[c], 200, NoError)]
    /\ lastWrite' = [lastWrite EXCEPT ![reqs[c].id] = c]
    /\ UNCHANGED <<started, nextId, now, listResp, delOk>>

\* DELETE /tasks/:id up to the DeleteCommand being issued
\* (server.js:274-298)
DeleteTask(c) ==
    \E id \in Ids :
        /\ Arrive(c, DeleteAfterGet(
                        DeleteArrive([Idle EXCEPT !.op = "DELETE", !.id = id,
                                                  !.afterDel = delOk[id] > 0]),
                        DdbHasItem(tasks, id)))
        /\ UNCHANGED <<tasks, nextId, now, listResp, delOk>>

\* the DeleteCommand is applied and the handler answers 200
\* (server.js:298-303)
DeleteApply(c) ==
    /\ reqs[c].op = "DELETE" /\ reqs[c].pc = "delete"
    /\ tasks' = DdbDelete(tasks, reqs[c].id)
    /\ reqs' = [reqs EXCEPT ![c] = Respond(reqs[c], 200, NoError)]
    /\ delOk' = [delOk EXCEPT ![reqs[c].id] = @ + 1]
    /\ UNCHANGED <<started, nextId, now, listResp, lastWrite>>

\* GET /tasks: its one store call, the scan, is applied and the handler
\* answers 200 (server.js:45-83)
GetTasks(c) ==
    \E boardId \in ListBoardIds, q \in ScanOrders(tasks) :
        LET all == [i \in DOMAIN q |-> tasks[q[i]]]
            list == IF Truthy(boardId) THEN ScanFilter(all, boardId) ELSE all
        IN  /\ Arrive(c, Respond(ListArrive([Idle EXCEPT !.op = "LIST",
                                                       !.boardId = boardId]),
                                 200, NoError))
            /\ listResp' = ListResponse(list, boardId)
            /\ UNCHANGED <<tasks, nextId, now, delOk>>

\* requests of two clients, overlapping
Next ==
    \/ \E c \in Clients : PostTasks(c, RacePostBodies)
    \/ \E c \in Clients : PostPut(c)
    \/ \E c \in Clients : PutTask(c, RacePutBodies)
    \/ \E c \in Clients : PutUpdate(c)
    \/ \E c \in Clients : DeleteTask(c)
    \/ \E c \in Clients : DeleteApply(c)

Spec == Init /\ [][Next]_vars

\* requests of one client, one after the other, with every body
NextBodies ==
    \/ PostTasks(Solo, PostBodies)
    \/ PostPut(Solo)
    \/ PutTask(Solo, PutBodies)
    \/ PutUpdate(Solo)
    \/ DeleteTask(Solo)
    \/ DeleteApply(Solo)

SpecBodies == Init /\ [][NextBodies]_vars

\* ------------------------------------------ GET /tasks on any task table
\* The items a task table can hold: an item written by POST /tasks (and
\* updated since) has every attribute, a board of the board table and a
\* valid status; an item created by an UpdateCommand on a key without item
\* has its key, updatedAt and the attributes that update set.
CreatedItems(id) ==
    {[a \in {"id", "boardId", "title", "description", "status", "createdAt", "updatedAt"} |->
        CASE a = "id" -> id
          [] a = "boardId" -> b
          [] a = "title" -> "T1"
          [] a = "description" -> ""
          [] a = "status" -> st
          [] a \in {"createdAt", "updatedAt"} -> 0] :
     b \in Boards, st \in validStatuses}

UpsertedItems(id) ==
    {[a \in {"id", "updatedAt"} |-> IF a = "id" THEN id ELSE 0]}
    \cup {[a \in {"id", "updatedAt", "status"} |->
            CASE a = "id" -> id [] a = "updatedAt" -> 0 [] a = "status" -> st] :
          st \in validStatuses}

TaskTables ==
    UNION {{t \in [D -> UNION {CreatedItems(i) \cup UpsertedItems(i) : i \in D}] :
                \A i \in D : t[i].id = i} : D \in SUBSET (1..MaxItems)}

InitList ==
    /\ tasks \in TaskTables
    /\ reqs = [c \in Clients |-> Idle]
    /\ started = 0
    /\ nextId = 0
    /\ now = 0
    /\ listResp = ListResponse(<< >>, Undefined)
    /\ delOk = [i \in Ids |-> 0]
    /\ lastWrite = [i \in Ids |-> NoClient]

NextList == GetTasks(Solo)

SpecList == InitList /\ [][NextList]_vars

\* ------------------------------------------------------------ properties
\* in this step client c's request arrives and runs to its first position
Arrives(c) == started' = started + 1 /\ reqs'[c].n = started'

\* in this step the second store call of client c's request is applied and
\* the request is answered
Applies(c) ==
    /\ reqs[c].pc \in {"put", "update", "delete"}
    /\ reqs'[c].pc = "done"
    /\ reqs'[c].n = reqs[c].n

AllAttributes ==
    {"id", "boardId", "title", "description", "status", "createdAt", "updatedAt"}

\* C1: a POST /tasks that lacks title or lacks boardId is answered 400, one
\* that has both and whose boardId names no board of the board table is
\* answered 404, and none of them writes to the task table.
C1_PostRejectedWithoutWrite ==
    [][\A c \in Clients :
        (Arrives(c) /\ reqs'[c].op = "POST") =>
            LET r == reqs'[c] IN
            /\ (~Truthy(r.title) \/ ~Truthy(r.boardId)) =>
                    r.pc = "done" /\ r.code = 400 /\ tasks' = tasks
            /\ (Truthy(r.title) /\ Truthy(r.boardId) /\ r.boardId \notin Boards) =>
                    r.pc = "done" /\ r.code = 404 /\ tasks' = tasks]_vars

\* C1 witness: with a task stored, a POST /tasks naming an unknown board
\* was answered 404.
C1_Witness ==
    \E c \in Clients :
        /\ reqs[c].op = "POST" /\ reqs[c].pc = "done"
        /\ Truthy(reqs[c].title) /\ reqs[c].boardId = "b3"
        /\ reqs[c].code = 404
        /\ DOMAIN tasks # {}

\* C2: every stored task has a status that is one of todo, in-progress,
\* done, in every reachable state.
C2_StatusAlwaysValid ==
    \A id \in DOMAIN tasks : Attr(tasks[id], "status") \in validStatuses

\* C3: a PUT /tasks/:id whose id has no item in the task table is answered
\* 404 and the request leaves the task table unchanged.
C3_PutMissingIs404 ==
    [][\A c \in Clients :
        (Arrives(c) /\ reqs'[c].op = "PUT" /\ ~DdbHasItem(tasks, reqs'[c].id)) =>
            /\ reqs'[c].pc = "done"
            /\ reqs'[c].code = 404
            /\ tasks' = tasks]_vars

\* C3 witness: a PUT on the id of a task that was created and then deleted
\* was answered 404.
C3_Witness ==
    \E c \in Clients :
        /\ reqs[c].op = "PUT" /\ reqs[c].pc = "done" /\ reqs[c].code = 404
        /\ delOk[reqs[c].id] > 0
        /\ ~DdbHasItem(tasks, reqs[c].id)

\* C4: of two DELETE requests on the same task id, the one that arrives
\* after the other was answered 200 is answered 404, and DELETE is answered
\* 200 at most once per created task.
C4_DeleteOnce ==
    /\ \A id \in Ids : delOk[id] <= 1
    /\ \A c \in Clients :
        (reqs[c].op = "DELETE" /\ reqs[c].afterDel /\ reqs[c].pc = "done")
            => reqs[c].code = 404

\* a PUT body that contains description and nothing else
OnlyDescription(r) ==
    r.title = Undefined /\ r.status = Undefined /\ r.description # Undefined

\* the attributes an update of description alone leaves as they were
FrameOfDescription(old, new) ==
    /\ DOMAIN new = DOMAIN old \cup {"description"}
    /\ \A a \in DOMAIN old \ {"description", "updatedAt"} : new[a] = old[a]

\* C5 (as claimed): a successful PUT with only description leaves title,
\* status, boardId, id and createdAt unchanged, sets description, and sets
\* updatedAt strictly later than the task's previous updatedAt.
C5_UpdatedAtStrictlyLater ==
    [][\A c \in Clients :
        (Applies(c) /\ reqs[c].op = "PUT" /\ OnlyDescription(reqs[c])
            /\ DdbHasItem(tasks, reqs[c].id)) =>
            LET old == tasks[reqs[c].id]
                new == tasks'[reqs[c].id]
            IN  /\ reqs'[c].code = 200
                /\ FrameOfDescription(old, new)
                /\ new.description = reqs[c].description
                /\ new.updatedAt > old.updatedAt]_vars

\* C5 (amended): a successful PUT with only description leaves title,
\* status, boardId, id and createdAt unchanged, sets description, and sets
\* updatedAt to the time its handler read after its lookup, which is not
\* earlier than the updatedAt that lookup found.
C5_DescriptionOnlyUpdate ==
    [][\A c \in Clients :
        (Applies(c) /\ reqs[c].op = "PUT" /\ OnlyDescription(reqs[c])
            /\ DdbHasItem(tasks, reqs[c].id)) =>
            LET old == tasks[reqs[c].id]
                new == tasks'[reqs[c].id]
            IN  /\ reqs'[c].code = 200
                /\ FrameOfDescription(old, new)
                /\ new.description = reqs[c].description
                /\ new.updatedAt = reqs[c].ts
                /\ reqs[c].ts >= reqs[c].seenAt]_vars

\* C5 witness: a PUT with only description was answered 200 and the task
\* holds its description, the title POST gave it, and an updatedAt that is
\* later than its createdAt.
C5_Witness ==
    \E c \in Clients :
        /\ reqs[c].op = "PUT" /\ reqs[c].pc = "done" /\ reqs[c].code = 200
        /\ OnlyDescription(reqs[c])
        /\ DdbHasItem(tasks, reqs[c].id)
        /\ DOMAIN tasks[reqs[c].id] = AllAttributes
        /\ tasks[reqs[c].id].description = reqs[c].description
        /\ tasks[reqs[c].id].title = "T1"
        /\ tasks[reqs[c].id].updatedAt = reqs[c].ts
        /\ tasks[reqs[c].id].updatedAt > tasks[reqs[c].id].createdAt

\* the i-th (from 1) smallest element of a set of numbers
Nth(S, i) == CHOOSE j \in S : Cardinality({k \in S : k < j}) = i - 1

\* group holds exactly the elements of list whose status is st, in the
\* order of list
GroupOf(group, list, st) ==
    LET idx == {j \in DOMAIN list : Attr(list[j], "status") = st}
    IN  /\ Len(group) = Cardinality(idx)
        /\ \A i \in DOMAIN group : group[i] = list[Nth(idx, i)]

IdsOf(list) == {list[j].id : j \in DOMAIN list}

\* C6: in a GET /tasks response the groups todo, in-progress and done are
\* pairwise disjoint, each holds exactly the returned tasks of that status
\* in scan order, their union is the returned tasks with a valid status,
\* and the group sizes sum to at most total, the length of the flat list,
\* which holds the tasks of the table the boardId filter selects.
C6_GroupsPartitionByStatus ==
    started > 0 =>
        LET list == listResp.tasks
            by == listResp.tasksByStatus
        IN  /\ GroupOf(by.todo, list, "todo")
            /\ GroupOf(by.inprogress, list, "in-progress")
            /\ GroupOf(by.done, list, "done")
            /\ IdsOf(by.todo) \cap IdsOf(by.inprogress) = {}
            /\ IdsOf(by.todo) \cap IdsOf(by.done) = {}
            /\ IdsOf(by.inprogress) \cap IdsOf(by.done) = {}
            /\ IdsOf(by.todo) \cup IdsOf(by.inprogress) \cup IdsOf(by.done)
                = {list[j].id : j \in {k \in DOMAIN list :
                                        Attr(list[k], "status") \in validStatuses}}
            /\ Len(by.todo) + Len(by.inprogress) + Len(by.done) <= listResp.total
            /\ listResp.total = Len(list)
            /\ Cardinality(IdsOf(list)) = Len(list)
            /\ {list[j] : j \in DOMAIN list}
                = {tasks[i] : i \in {k \in DOMAIN tasks :
                        \/ listResp.boardId = "null"
                        \/ Attr(tasks[k], "boardId") = listResp.boardId}}

\* C6 witness: a response lists at least two tasks, one of them in a group
\* and one, without a valid status, in no group.
C6_Witness ==
    /\ started > 0
    /\ listResp.total >= 2
    /\ Len(listResp.tasksByStatus.todo) + Len(listResp.tasksByStatus.inprogress)
        + Len(listResp.tasksByStatus.done) < listResp.total
    /\ Len(listResp.tasksByStatus.done) >= 1

BodyFields == {"title", "description", "status"}

\* C7 (as claimed): in PUT /tasks/:id on an existing task each of title,
\* description and status that is present in the body is merged and each
\* absent one is left unchanged, and a present status outside the enum is
\* answered 400 with the table unchanged.
C7_PresentFieldsMerged ==
    [][\A c \in Clients :
        /\ (Arrives(c) /\ reqs'[c].op = "PUT" /\ DdbHasItem(tasks, reqs'[c].id)
                /\ reqs'[c].status # Undefined /\ reqs'[c].status \notin validStatuses)
            => (reqs'[c].pc = "done" /\ reqs'[c].code = 400 /\ tasks' = tasks)
        /\ (Applies(c) /\ reqs[c].op = "PUT" /\ DdbHasItem(tasks, reqs[c].id))
            => \A f \in BodyFields :
                Attr(tasks'[reqs[c].id], f) =
                    IF reqs[c][f] # Undefined THEN reqs[c][f]
                    ELSE Attr(tasks[reqs[c].id], f)]_vars

\* C7 (amended): in PUT /tasks/:id on an existing task, title and status
\* are merged when present and non-empty, description whenever present
\* (empty included); an absent field, and an empty title or status, leaves
\* the attribute unchanged; a non-empty status outside the enum is answered
\* 400 before any write, with the table unchanged, and no request writes
\* before it has passed that validation.
C7_TruthyFieldsMerged ==
    [][\A c \in Clients :
        /\ (Arrives(c) /\ reqs'[c].op = "PUT") => tasks' = tasks
        /\ (Arrives(c) /\ reqs'[c].op = "PUT" /\ DdbHasItem(tasks, reqs'[c].id)) =>
            IF Truthy(reqs'[c].status) /\ reqs'[c].status \notin validStatuses
            THEN reqs'[c].pc = "done" /\ reqs'[c].code = 400
            ELSE reqs'[c].pc = "update"
        /\ (Applies(c) /\ reqs[c].op = "PUT" /\ DdbHasItem(tasks, reqs[c].id)) =>
            LET old == tasks[reqs[c].id]
                new == tasks'[reqs[c].id]
            IN  /\ Attr(new, "title") =
                    IF Truthy(reqs[c].title) THEN reqs[c].title ELSE Attr(old, "title")
                /\ Attr(new, "description") =
                    IF reqs[c].description # Undefined THEN reqs[c].description
                    ELSE Attr(old, "description")
                /\ Attr(new, "status") =
                    IF Truthy(reqs[c].status) THEN reqs[c].status ELSE Attr(old, "status")
                /\ Attr(new, "status") \in validStatuses
                /\ \A a \in DOMAIN old \ (BodyFields \cup {"updatedAt"}) : new[a] = old[a]]_vars

\* C7 witness: a PUT with an empty title, an empty description and an empty
\* status was answered 200; the task kept its title and status and its
\* description is empty.
C7_Witness ==
    \E c \in Clients :
        /\ reqs[c].op = "PUT" /\ reqs[c].pc = "done" /\ reqs[c].code = 200
        /\ reqs[c].title = "" /\ reqs[c].description = "" /\ reqs[c].status = ""
        /\ DdbHasItem(tasks, reqs[c].id)
        /\ tasks[reqs[c].id].title = "T1"
        /\ tasks[reqs[c].id].description = ""
        /\ tasks[reqs[c].id].status = "in-progress"

\* C8 (as claimed): every request answered 400 was answered before its
\* handler issued any store call.
C8_ValidationBeforeStore ==
    \A c \in Clients :
        (reqs[c].pc = "done" /\ reqs[c].code = 400) => reqs[c].calls = 0

\* C8 (amended): a POST /tasks without title or without boardId is answered
\* 400 before any store call; an invalid status is answered 400 after the
\* handler's one lookup (of the board in POST, of the task in PUT) and
\* before any write.
C8_ValidationOrder ==
    \A c \in Clients :
        LET r == reqs[c] IN
        /\ (r.op = "POST" /\ (~Truthy(r.title) \/ ~Truthy(r.boardId))) =>
            /\ r.pc = "done" /\ r.code = 400 /\ r.calls = 0
            /\ r.error = IF ~Truthy(r.title) THEN TitleRequired ELSE BoardRequired
        /\ (r.op = "POST" /\ Truthy(r.title) /\ r.boardId \in Boards
                /\ Truthy(r.status) /\ r.status \notin validStatuses) =>
            r.pc = "done" /\ r.code = 400 /\ r.error = InvalidStatus /\ r.calls = 1
        /\ (r.op = "PUT" /\ r.found
                /\ Truthy(r.status) /\ r.status \notin validStatuses) =>
            r.pc = "done" /\ r.code = 400 /\ r.error = InvalidStatus /\ r.calls = 1
        /\ (r.pc = "done" /\ r.code = 400 /\ r.error = InvalidStatus) =>
            r.calls = 1 /\ Truthy(r.status) /\ r.status \notin validStatuses

\* C8 witness: a PUT on a stored task with an invalid status was answered
\* 400 after its lookup.
C8_Witness ==
    \E c \in Clients :
        /\ reqs[c].op = "PUT" /\ reqs[c].pc = "done" /\ reqs[c].code = 400
        /\ reqs[c].found /\ reqs[c].calls = 1
        /\ DdbHasItem(tasks, reqs[c].id)

\* C9: PUT makes no version check: a PUT that found its task is answered
\* 200 whatever other PUT was applied in between, and each attribute the
\* PUT applied last set holds that PUT's value.
C9_LastWriterWins ==
    \A c \in Clients :
        LET r == reqs[c] IN
        /\ (r.op = "PUT" /\ r.found /\ ~(Truthy(r.status) /\ r.status \notin validStatuses)) =>
            /\ r.pc \in {"update", "done"}
            /\ r.pc = "done" => r.code = 200
        /\ (r.op = "PUT" /\ lastWrite[r.id] = c /\ DdbHasItem(tasks, r.id)) =>
            /\ r.pc = "done" /\ r.code = 200
            /\ Truthy(r.title) => tasks[r.id].title = r.title
            /\ r.description # Undefined => tasks[r.id].description = r.description
            /\ Truthy(r.status) => tasks[r.id].status = r.status
            /\ tasks[r.id].updatedAt = r.ts

\* C9 witness: two PUTs on the same task, each of which looked the task up
\* before the other's update was applied, set different statuses; both
\* were answered 200 and the task holds the status of the one applied last,
\* which looked the task up first.
C9_Witness ==
    \E c, d \in Clients :
        /\ c # d
        /\ reqs[c].op = "PUT" /\ reqs[d].op = "PUT" /\ reqs[c].id = reqs[d].id
        /\ reqs[c].pc = "done" /\ reqs[d].pc = "done"
        /\ reqs[c].code = 200 /\ reqs[d].code = 200
        /\ reqs[d].raced /\ reqs[c].n < reqs[d].n
        /\ Truthy(reqs[c].status) /\ Truthy(reqs[d].status)
        /\ reqs[c].status # reqs[d].status
        /\ lastWrite[reqs[c].id] = c
        /\ DdbHasItem(tasks, reqs[c].id)
        /\ tasks[reqs[c].id].status = reqs[c].status

\* C10: once a DELETE was answered 200 for an id, the task table never
\* again holds an item with that id, and every item of the table has all
\* of id, boardId, title, description, status, createdAt and updatedAt.
C10_DeletedStaysDeleted ==
    /\ \A id \in Ids : delOk[id] > 0 => ~DdbHasItem(tasks, id)
    /\ \A id \in DOMAIN tasks : DOMAIN tasks[id] = AllAttributes

====
